---- MODULE Spec2Model ----
(***************************************************************************)
(* Model of dashboard_tarea_grupo_44.py: a Streamlit script that loads      *)
(* data.csv once (load_data, cached), reads four sidebar widgets, filters   *)
(* the DataFrame and renders KPIs and eight charts.  Streamlit re-executes  *)
(* the whole script on every widget change, so every widget action below    *)
(* is one complete pass over lines 35-247.                                  *)
(*                                                                          *)
(* Encoding of pandas values:                                               *)
(*   - a CSV cell is a string; the empty string is an empty cell;           *)
(*   - NA is the missing marker of a text column (NaN in an object column); *)
(*   - NaN / NaT are the missing markers of numeric / datetime columns;     *)
(*     numbers are amounts >= 0 and Timestamps are day ordinals >= 1, so    *)
(*     the negative marker never collides with a value;                     *)
(*   - every comparison with a missing value is False, as in pandas.        *)
(***************************************************************************)
EXTENDS Integers, Sequences, FiniteSets, TLC

VARIABLES
    csv,                     \* the rows of data.csv, in file order
    pc,                      \* position of the script
    df,                      \* the DataFrame returned by load_data (line 33)
    total_dtype,             \* dtype of df['Total']: "float64" or "object"
    selected_branch,         \* line 40
    selected_product_line,   \* line 44
    selected_customer_type,  \* line 48
    selected_date_range,     \* line 53: a tuple of 0, 1 or 2 dates
    cat_df,                  \* filtered_df after line 74 (categorical filters)
    filtered_df,             \* filtered_df after line 81
    kpi,                     \* lines 92-105
    charts,                  \* lines 116-247, one entry per chart
    loaded_df,               \* history: df as load_data returned it
    first_view,              \* history: filtered_df of the first pass
    reruns                   \* history: has the script run again since?

vars == <<csv, pc, df, total_dtype, selected_branch, selected_product_line,
          selected_customer_type, selected_date_range, cat_df, filtered_df,
          kpi, charts, loaded_df, first_view, reruns>>

\* ------------------------------------------------------------------ bounds
MaxRows == 2

\* ------------------------------------------------------- pandas primitives
NA  == "<NA>"
NaN == 0 - 1
NaT == 0 - 1

Todas == "Todas"
Todos == "Todos"

RECURSIVE SumSeq(_)
SumSeq(s) == IF s = <<>> THEN 0 ELSE Head(s) + SumSeq(Tail(s))

Range(s) == {s[i] : i \in 1..Len(s)}

Min(S) == CHOOSE x \in S : \A y \in S : x <= y
Max(S) == CHOOSE x \in S : \A y \in S : x >= y

\* pd.read_csv on a text cell: an empty cell is missing.
ReadText(cell) == IF cell = "" THEN NA ELSE cell

NumberCells == {"0", "1", "2", "3", "5", "7", "9", "10", "20", "30"}

\* The number a numeric cell denotes.
NumberOf(cell) ==
    CASE cell = "0"  -> 0
      [] cell = "1"  -> 1
      [] cell = "2"  -> 2
      [] cell = "3"  -> 3
      [] cell = "5"  -> 5
      [] cell = "7"  -> 7
      [] cell = "9"  -> 9
      [] cell = "10" -> 10
      [] cell = "20" -> 20
      [] cell = "30" -> 30

\* pd.to_numeric(column, errors='coerce') on one cell: a number, else NaN.
ToNumeric(cell) == IF cell \in NumberCells THEN NumberOf(cell) ELSE NaN

DateCells == {"1/1/2019", "1/2/2019", "1/3/2019"}

\* pd.to_datetime on one cell: day ordinal of the date, NaT for an empty
\* cell.  Any other text makes to_datetime raise (see DateRaises).
ToDatetime(cell) ==
    CASE cell = "1/1/2019" -> 1
      [] cell = "1/2/2019" -> 2
      [] cell = "1/3/2019" -> 3
      [] OTHER             -> NaT

DateRaises(rows) == \E i \in 1..Len(rows) : rows[i].Date \notin DateCells \cup {""}

\* Type inference of pd.read_csv for a column that load_data does not
\* coerce: float64 when every cell is a number or empty, else object (the
\* cells stay text).
InferDtype(cells) ==
    IF \A i \in 1..Len(cells) : cells[i] \in NumberCells \cup {""}
    THEN "float64" ELSE "object"

\* DataFrame.dropna(subset=[col]) for a numeric column.
Dropna(rows, col) == SelectSeq(rows, LAMBDA r : r[col] # NaN)

\* ---------------------------------------------------------------- load_data
\* Line 22: read_csv gives every row its position as index.
ReadCsv(rows) ==
    [i \in 1..Len(rows) |->
        [index        |-> i,
         InvoiceID    |-> ReadText(rows[i].InvoiceID),
         Branch       |-> ReadText(rows[i].Branch),
         ProductLine  |-> ReadText(rows[i].ProductLine),
         CustomerType |-> ReadText(rows[i].CustomerType),
         Payment      |-> ReadText(rows[i].Payment),
         Date         |-> rows[i].Date,
         Total        |-> rows[i].Total,
         cogs         |-> rows[i].cogs,
         gross_income |-> rows[i].gross_income,
         Rating       |-> ToNumeric(rows[i].Rating)]]

\* Line 23.
ParseDates(rows) ==
    [i \in 1..Len(rows) |-> [rows[i] EXCEPT !.Date = ToDatetime(@)]]

\* Lines 25 and 29: pd.to_numeric(data[col], errors='coerce').
CoerceColumn(rows, col) ==
    [i \in 1..Len(rows) |-> [rows[i] EXCEPT ![col] = ToNumeric(@)]]

\* The Total column is never coerced: it keeps what read_csv inferred.
TotalColumn(rows) ==
    IF InferDtype([i \in 1..Len(rows) |-> rows[i].Total]) = "float64"
    THEN [i \in 1..Len(rows) |-> [rows[i] EXCEPT !.Total = ToNumeric(@)]]
    ELSE rows

\* Lines 22-31, when to_datetime does not raise.
load_data(rows) ==
    LET data0 == TotalColumn(ReadCsv(rows))
        data1 == ParseDates(data0)
        data2 == Dropna(CoerceColumn(data1, "gross_income"), "gross_income")
        data3 == Dropna(CoerceColumn(data2, "cogs"), "cogs")
    IN  data3

\* ------------------------------------------------------------ text order
\* Python compares str by code point: upper-case letters sort before
\* lower-case ones.  Rank of the texts that occur in the modelled files.
TextOrd(s) ==
    CASE s = "A"      -> 1
      [] s = "B"      -> 2
      [] s = "Cash"   -> 3
      [] s = "Food"   -> 4
      [] s = "INV-1"  -> 5
      [] s = "INV-2"  -> 6
      [] s = "Member" -> 7
      [] s = "Normal" -> 8
      [] s = "Tech"   -> 9
      [] s = "a"      -> 10
      [] s = "food"   -> 11
      [] OTHER        -> 12

\* sorted(values) of a set of texts, as a list.
RECURSIVE sorted(_)
sorted(S) ==
    IF S = {} THEN <<>>
    ELSE LET m == CHOOSE x \in S : \A y \in S : TextOrd(x) <= TextOrd(y)
         IN  <<m>> \o sorted(S \ {m})

\* Series.unique(): the distinct values of a column, a missing value included.
unique(rows, col) == {rows[i][col] : i \in 1..Len(rows)}

\* --------------------------------------------------------- sidebar widgets
\* Lines 39, 43, 47: sorted() raises TypeError when the column mixes text
\* with a missing value (a float NaN); a column that is missing throughout
\* sorts and offers NaN as an option.
SortedRaises(rows, col) ==
    NA \in unique(rows, col) /\ unique(rows, col) # {NA}

Options(rows, col, all) == <<all>> \o sorted(unique(rows, col))

branches       == Options(df, "Branch", Todas)
product_lines  == Options(df, "ProductLine", Todas)
customer_types == Options(df, "CustomerType", Todos)

\* Lines 51-52: Series.min() / max() skip NaT; NaT when no date is left.
Dates(rows) == {rows[i].Date : i \in 1..Len(rows)} \ {NaT}
min_date == IF Dates(df) = {} THEN NaT ELSE Min(Dates(df))
max_date == IF Dates(df) = {} THEN NaT ELSE Max(Dates(df))

\* Lines 53-58: the range picker returns 0, 1 or 2 dates, each within
\* [min_value, max_value].
DateRangeChoices ==
    LET days == min_date..max_date
    IN  {<<>>} \cup {<<a>> : a \in days} \cup {<<a, b>> : a, b \in days}

\* The script stops in the sidebar when a sorted() raises or when
\* date_input is handed NaT bounds.
WidgetsRaise ==
    \/ SortedRaises(df, "Branch")
    \/ SortedRaises(df, "ProductLine")
    \/ SortedRaises(df, "CustomerType")
    \/ min_date = NaT

\* ------------------------------------------------------------ filter block
\* Series == value on a text column: a missing value equals nothing.
TextEqIgnoreCase(a, b) ==
    a # NA /\ b # NA /\ (a = b \/ {a, b} \in {{"A", "a"}, {"Food", "food"}})
TextEq(a, b) == a # NA /\ b # NA /\ a = b

\* Series >= Timestamp and Series <= Timestamp: False on NaT.
Ge(a, b) == a # NaT /\ b # NaT /\ a >= b
LeStrict(a, b) == a # NaT /\ b # NaT /\ a < b
Le(a, b) == a # NaT /\ b # NaT /\ a <= b

\* Line 62: every pass restarts from a copy of df.
FilterStartFromPrevious(d, prev) == prev
FilterStartCached(d, prev) == IF prev = <<>> THEN d ELSE prev
FilterStart(d, prev) == d

\* Lines 65-66, 69-70, 73-74: one categorical filter.
CategoryFilter(f, col, sel, all) ==
    IF sel # all THEN SelectSeq(f, LAMBDA r : TextEq(r[col], sel)) ELSE f

\* Lines 77-81.
DateFilter(f, dr) ==
    IF Len(dr) = 2
    THEN SelectSeq(f, LAMBDA r : Ge(r.Date, dr[1]) /\ Le(r.Date, dr[2]))
    ELSE f

\* Lines 62-74.
CategoricalFilters(d, prev, sb, sp, sc) ==
    LET f0 == FilterStart(d, prev)
        f1 == CategoryFilter(f0, "Branch", sb, Todas)
        f2 == CategoryFilter(f1, "ProductLine", sp, Todas)
        f3 == CategoryFilter(f2, "CustomerType", sc, Todos)
    IN  f3

\* ------------------------------------------------------------ aggregation
\* Series.sum() / count() of a float column: missing values are skipped.
Values(f, col) == [i \in 1..Len(f) |-> f[i][col]]
NanSum(v) == SumSeq(SelectSeq(v, LAMBDA x : x # NaN))
NanCount(v) == Len(SelectSeq(v, LAMBDA x : x # NaN))

\* DataFrame.groupby(col): one group per value present, in sorted key
\* order; rows whose key is missing belong to no group (dropna=True).
GroupKeys(f, col) == sorted(unique(f, col) \ {NA})

\* groupby(col)[val].sum().reset_index()
GroupSum(f, col, val) ==
    LET keys == GroupKeys(f, col)
    IN  [k \in 1..Len(keys) |->
            [key   |-> keys[k],
             value |-> NanSum(Values(SelectSeq(f, LAMBDA r : r[col] = keys[k]),
                                     val))]]

\* sort_values(by=value, ascending=False): insertion into a descending
\* list; rows of equal value keep their incoming order.
RECURSIVE SortDescending(_)
InsertDescending(row, t) ==
    LET before == SelectSeq(t, LAMBDA x : x.value >= row.value)
        after  == SelectSeq(t, LAMBDA x : x.value < row.value)
    IN  before \o <<row>> \o after
SortDescending(t) ==
    IF t = <<>> THEN <<>>
    ELSE InsertDescending(t[Len(t)], SortDescending(SubSeq(t, 1, Len(t) - 1)))

\* Line 120: groupby(Date.dt.to_period("D"))['Total'].sum(), days ascending;
\* rows dated NaT belong to no group.
RECURSIVE SortedDays(_)
SortedDays(S) ==
    IF S = {} THEN <<>> ELSE <<Min(S)>> \o SortedDays(S \ {Min(S)})

sales_over_time(f) ==
    LET days == SortedDays(Dates(f))
    IN  [k \in 1..Len(days) |->
            [Date  |-> days[k],
             Total |-> NanSum(Values(SelectSeq(f, LAMBDA r : r.Date = days[k]),
                                     "Total"))]]

\* Line 144.
revenue_by_product_line(f) == SortDescending(GroupSum(f, "ProductLine", "Total"))

\* Line 175: value_counts() counts the non-missing values, most frequent
\* first.
payment_counts(f) ==
    LET keys == GroupKeys(f, "Payment")
    IN  SortDescending(
            [k \in 1..Len(keys) |->
                [key   |-> keys[k],
                 value |-> Len(SelectSeq(f, LAMBDA r : r.Payment = keys[k]))]])

\* Line 190: one branch selected.
income_by_product_single_branch(f) ==
    SortDescending(GroupSum(f, "ProductLine", "gross_income"))

\* Line 196: groupby(['Branch', 'Product line']): one group per pair present,
\* in (Branch, Product line) order; a row with either key missing belongs
\* to no group.
income_by_branch_product(f) ==
    LET bs == GroupKeys(f, "Branch")
        PerBranch(b) ==
            LET fb == SelectSeq(f, LAMBDA r : r.Branch = b)
                t  == GroupSum(fb, "ProductLine", "gross_income")
            IN  [k \in 1..Len(t) |->
                    [Branch |-> b, key |-> t[k].key, value |-> t[k].value]]
        RECURSIVE Concat(_)
        Concat(i) == IF i > Len(bs) THEN <<>>
                     ELSE PerBranch(bs[i]) \o Concat(i + 1)
    IN  Concat(1)

\* ------------------------------------------------------- KPIs and charts
\* DataFrame.empty
IsEmptyNever(f) == FALSE
IsEmpty(f) == f = <<>>

NoKpi == [branch |-> "none", raised |-> FALSE, total_revenue |-> NaN,
          total_gross_income |-> NaN, rating_sum |-> NaN, rating_count |-> NaN,
          num_transactions |-> NaN]

\* Lines 92-105.  With an object Total column Series.sum() joins the texts
\* and the ",.2f" format of line 100 raises ValueError: total_revenue is
\* then no number (NaN here) and raised is TRUE.  average_rating is
\* rating_sum / rating_count.
KpiBlock(f, dtype) ==
    IF ~IsEmpty(f)
    THEN [branch             |-> "metrics",
          raised             |-> dtype = "object",
          total_revenue      |-> IF dtype = "float64"
                                 THEN NanSum(Values(f, "Total")) ELSE NaN,
          total_gross_income |-> NanSum(Values(f, "gross_income")),
          rating_sum         |-> NanSum(Values(f, "Rating")),
          rating_count       |-> NanCount(Values(f, "Rating")),
          num_transactions   |-> Cardinality(unique(f, "InvoiceID") \ {NA})]
    ELSE [NoKpi EXCEPT !.branch = "warning"]

Info == [state |-> "info", mode |-> "", data |-> <<>>]
Unrendered == [state |-> "unrendered", mode |-> "", data |-> <<>>]
Chart(mode, data) == [state |-> "chart", mode |-> mode, data |-> data]

\* Line 232, restricted to the modelled columns, and line 234.
numeric_cols_corr == <<"Total", "cogs", "gross_income", "Rating">>
valid_numeric_cols(dtype) ==
    SelectSeq(numeric_cols_corr, LAMBDA c : c # "Total" \/ dtype = "float64")

\* Lines 188-205.
IncomeComposition(f, sb) ==
    IF ~IsEmpty(f)
    THEN IF sb # Todas
         THEN Chart("single", income_by_product_single_branch(f))
         ELSE Chart("all", income_by_branch_product(f))
    ELSE Info

\* Lines 116-247: each chart computes its table, or takes its st.info branch.
ChartsBlock(f, dtype, sb) ==
    [fig_sales_evolution |->
        IF ~IsEmpty(f) THEN Chart("", sales_over_time(f)) ELSE Info,
     fig_rating_distribution |->
        IF ~IsEmpty(f) THEN Chart("", Values(f, "Rating")) ELSE Info,
     fig_revenue_product |->
        IF ~IsEmpty(f) THEN Chart("", revenue_by_product_line(f)) ELSE Info,
     fig_spending_customer_type |->
        IF ~IsEmpty(f)
        THEN Chart("", [i \in 1..Len(f) |-> <<f[i].CustomerType, f[i].Total>>])
        ELSE Info,
     fig_payment_methods |->
        IF ~IsEmpty(f) THEN Chart("", payment_counts(f)) ELSE Info,
     fig_income_composition |-> IncomeComposition(f, sb),
     fig_cogs_income_relation |->
        IF ~IsEmpty(f)
        THEN Chart("", [i \in 1..Len(f) |-> <<f[i].cogs, f[i].gross_income>>])
        ELSE Info,
     fig_correlation_heatmap |->
        IF ~IsEmpty(f)
        THEN IF Len(valid_numeric_cols(dtype)) > 1
             THEN Chart("", valid_numeric_cols(dtype))
             ELSE [state |-> "warning", mode |-> "", data |-> <<>>]
        ELSE Info]

NoCharts ==
    [fig_sales_evolution |-> Unrendered, fig_rating_distribution |-> Unrendered,
     fig_revenue_product |-> Unrendered, fig_spending_customer_type |-> Unrendered,
     fig_payment_methods |-> Unrendered, fig_income_composition |-> Unrendered,
     fig_cogs_income_relation |-> Unrendered, fig_correlation_heatmap |-> Unrendered]

ChartNames == DOMAIN NoCharts

\* ------------------------------------------------------------ one script pass
\* Lines 60-247 under the selection (sb, sp, sc, dr).  The pass ends at
\* line 100 when the metric format raises; nothing below it is rendered.
Pass(sb, sp, sc, dr) ==
    LET cat  == CategoricalFilters(df, filtered_df, sb, sp, sc)
        view == DateFilter(cat, dr)
        k    == KpiBlock(view, total_dtype)
    IN  /\ selected_branch' = sb
        /\ selected_product_line' = sp
        /\ selected_customer_type' = sc
        /\ selected_date_range' = dr
        /\ cat_df' = cat
        /\ filtered_df' = view
        /\ kpi' = k
        /\ charts' = IF k.raised THEN NoCharts
                     ELSE ChartsBlock(view, total_dtype, sb)
        /\ pc' = IF k.raised THEN "kpi_raised" ELSE "done"
        /\ UNCHANGED <<csv, df, total_dtype, loaded_df>>

Rendered == pc \in {"done", "kpi_raised"}

\* Lines 16-33: load_data runs once; st.cache_data serves df afterwards.
LoadData ==
    /\ pc = "start"
    /\ IF DateRaises(csv)
       THEN /\ pc' = "load_error"
            /\ UNCHANGED <<df, total_dtype, loaded_df>>
       ELSE /\ pc' = "loaded"
            /\ df' = load_data(csv)
            /\ total_dtype' = InferDtype([i \in 1..Len(csv) |-> csv[i].Total])
            /\ loaded_df' = df'
    /\ UNCHANGED <<csv, selected_branch, selected_product_line,
                   selected_customer_type, selected_date_range, cat_df,
                   filtered_df, kpi, charts, first_view, reruns>>

\* First execution of the script: every widget holds its default.
FirstRun ==
    /\ pc = "loaded"
    /\ IF WidgetsRaise
       THEN /\ pc' = "widget_error"
            /\ UNCHANGED <<csv, df, total_dtype, loaded_df, selected_branch,
                           selected_product_line, selected_customer_type,
                           selected_date_range, cat_df, filtered_df, kpi,
                           charts, first_view, reruns>>
       ELSE /\ Pass(Todas, Todas, Todos, <<min_date, max_date>>)
            /\ first_view' = filtered_df'
            /\ reruns' = FALSE

\* The user picks another entry of a widget; the script runs again.
ChangeBranch ==
    /\ Rendered
    /\ \E b \in Range(branches) :
          /\ b # selected_branch
          /\ Pass(b, selected_product_line, selected_customer_type,
                  selected_date_range)
    /\ reruns' = TRUE
    /\ UNCHANGED first_view

ChangeProductLine ==
    /\ Rendered
    /\ \E p \in Range(product_lines) :
          /\ p # selected_product_line
          /\ Pass(selected_branch, p, selected_customer_type,
                  selected_date_range)
    /\ reruns' = TRUE
    /\ UNCHANGED first_view

ChangeCustomerType ==
    /\ Rendered
    /\ \E c \in Range(customer_types) :
          /\ c # selected_customer_type
          /\ Pass(selected_branch, selected_product_line, c,
                  selected_date_range)
    /\ reruns' = TRUE
    /\ UNCHANGED first_view

ChangeDateRange ==
    /\ Rendered
    /\ \E dr \in DateRangeChoices :
          /\ dr # selected_date_range
          /\ Pass(selected_branch, selected_product_line,
                  selected_customer_type, dr)
    /\ reruns' = TRUE
    /\ UNCHANGED first_view

\* Any other rerun (an unrelated interaction, the Rerun command): the
\* widgets keep their values.
Rerun ==
    /\ Rendered
    /\ Pass(selected_branch, selected_product_line, selected_customer_type,
            selected_date_range)
    /\ reruns' = TRUE
    /\ UNCHANGED first_view

Next ==
    \/ LoadData
    \/ FirstRun
    \/ ChangeBranch
    \/ ChangeProductLine
    \/ ChangeCustomerType
    \/ ChangeDateRange
    \/ Rerun

\* ------------------------------------------------------------ input files
Row(inv, b, p, c, pay, d, t, cg, gi, rt) ==
    [InvoiceID |-> inv, Branch |-> b, ProductLine |-> p, CustomerType |-> c,
     Payment |-> pay, Date |-> d, Total |-> t, cogs |-> cg,
     gross_income |-> gi, Rating |-> rt]

\* Files for the filter block: the categorical fields and the date vary.
FilterRows ==
    {Row("INV-1", b, p, c, "Cash", "1/1/2019", "10", "9", "1", "7") :
        b \in {"A", "a"}, p \in {"Food", "Tech"}, c \in {"Member", "Normal"}}
    \cup
    {Row("INV-2", "A", "Food", "Member", "Cash", d, "20", "9", "1", "7") :
        d \in {"1/2/2019", "1/3/2019", ""}}
    \cup
    {Row("INV-2", b, p, c, "Cash", "1/1/2019", "10", "9", "1", "7") :
        <<b, p, c>> \in {<<"", "Food", "Member">>, <<"A", "", "Member">>,
                         <<"A", "Food", "">>}}

\* Files for the aggregates: the group keys and the summed amounts vary.
AggRows ==
    {Row("INV-1", b, p, "Member", "Cash", "1/1/2019", t, "9", "1", "7") :
        b \in {"A", "B"}, p \in {"Food", "Tech"}, t \in {"10", "20"}}
    \cup
    {Row("INV-2", b, p, "Member", "Cash", "1/1/2019", "10", "9", "3", "5") :
        b \in {"A", "B"}, p \in {"Food", "Tech"}}
    \cup
    {Row("INV-2", "A", "", "Member", "Cash", "1/1/2019", "30", "9", "2", "5"),
     Row("INV-2", "", "Food", "Member", "Cash", "1/1/2019", "30", "9", "2", "5")}

\* Files for load_data: an amount cell is a number, a text that is no
\* number, or (gross income) empty.
LoadRows ==
    {Row("INV-1", "A", "Food", "Member", "Cash", "1/1/2019", t, cg, gi, "7") :
        t \in {"10", "abc"}, cg \in {"9", "abc"}, gi \in {"1", "abc", ""}}
    \cup
    {Row("INV-2", "B", "Tech", "Normal", "Cash", "1/2/2019", "20", "9", "3", "5"),
     Row("INV-2", "A", "Food", "Member", "Cash", "not a date", "20", "9", "3", "5")}

Files(pool) == UNION {[1..n -> pool] : n \in 0..MaxRows}

InitWith(pool) ==
    /\ csv \in Files(pool)
    /\ pc = "start"
    /\ df = <<>>
    /\ total_dtype = "float64"
    /\ selected_branch = Todas
    /\ selected_product_line = Todas
    /\ selected_customer_type = Todos
    /\ selected_date_range = <<>>
    /\ cat_df = <<>>
    /\ filtered_df = <<>>
    /\ kpi = NoKpi
    /\ charts = NoCharts
    /\ loaded_df = <<>>
    /\ first_view = <<>>
    /\ reruns = FALSE

Init == InitWith(FilterRows)
InitAgg == InitWith(AggRows)
InitLoad == InitWith(LoadRows)

Spec == Init /\ [][Next]_vars
SpecAgg == InitAgg /\ [][Next]_vars
SpecLoad == InitLoad /\ [][Next]_vars

\* ============================================================== properties
AllSelected ==
    /\ selected_branch = Todas
    /\ selected_product_line = Todas
    /\ selected_customer_type = Todos

FullSpan == selected_date_range = <<min_date, max_date>>

Loaded == pc \notin {"start", "load_error"}

\* The dataset rows that a view lacks.
Removed(view) == {r \in Range(df) : r \notin Range(view)}

\* A view lists rows of df, each at most once, in df order.
IsSubview(view) ==
    /\ Range(view) \subseteq Range(df)
    /\ \A i, j \in 1..Len(view) : i < j => view[i].index < view[j].index

\* The row matches the selection of one categorical field: the selection is
\* "all", or the field holds exactly the selected text.
MatchesField(value, sel, all) == sel = all \/ (value # NA /\ value = sel)

PassesCategorical(r) ==
    /\ MatchesField(r.Branch, selected_branch, Todas)
    /\ MatchesField(r.ProductLine, selected_product_line, Todas)
    /\ MatchesField(r.CustomerType, selected_customer_type, Todos)

InRange(r) ==
    /\ r.Date # NaT
    /\ selected_date_range[1] <= r.Date
    /\ r.Date <= selected_date_range[2]

PassesDate(r) == Len(selected_date_range) = 2 => InRange(r)

\* C1: with branch, product line and customer type on "all" and the date
\* range on the full span (min Date, max Date), the Filtered View holds
\* exactly the rows of the Dataset.
C1_FullSelectionKeepsAllRows ==
    (Rendered /\ AllSelected /\ FullSpan) => filtered_df = df

\* C2: every row of the Filtered View is a row of the Dataset, unaltered,
\* and the same selection applied to the same Dataset again gives the same
\* Filtered View: a rerun under unchanged widgets leaves the view as it
\* was, and whenever the default selection is active again the view is the
\* one the first pass computed for it.
C2_SubsetAndRepeatableState ==
    Rendered =>
        /\ IsSubview(filtered_df)
        /\ (AllSelected /\ FullSpan) => filtered_df = first_view

C2_SameSelectionStep ==
    (/\ Rendered
     /\ Rendered'
     /\ selected_branch' = selected_branch
     /\ selected_product_line' = selected_product_line
     /\ selected_customer_type' = selected_customer_type
     /\ selected_date_range' = selected_date_range)
    => filtered_df' = filtered_df

\* C2, as one formula: the state part in every state, the step part on
\* every step.
C2_SubsetAndRepeatable ==
    [](C2_SubsetAndRepeatableState) /\ [][C2_SameSelectionStep]_vars

C2_Witness ==
    /\ Rendered /\ reruns /\ AllSelected /\ FullSpan
    /\ filtered_df # <<>>
    /\ Len(df) > 1

\* C3: the three categorical filters are combined with AND: a row is in
\* the view after them iff, for each field, the selection is "all" or the
\* field equals the selected value exactly (case-sensitive).
C3_CategoricalFiltersAreAnd ==
    Rendered => cat_df = SelectSeq(df, PassesCategorical)

C3_Witness ==
    /\ Rendered
    /\ selected_branch = "A"
    /\ selected_customer_type = "Member"
    /\ cat_df # <<>>
    /\ \E r \in Removed(cat_df) : r.Branch = "a"

\* C4: with both endpoints selected a row passes the date filter iff
\* start <= date <= end, both ends included; with fewer than two endpoints
\* the date filter removes no row.
C4_DateFilterInclusiveOrSkipped ==
    Rendered =>
        IF Len(selected_date_range) = 2
        THEN filtered_df = SelectSeq(cat_df, InRange)
        ELSE filtered_df = cat_df

C4_Witness ==
    /\ Rendered
    /\ Len(selected_date_range) = 2
    /\ \E r \in Range(filtered_df) : r.Date = selected_date_range[1]
    /\ \E r \in Range(filtered_df) : r.Date = selected_date_range[2]
    /\ \E r \in Range(cat_df) : r.Date # NaT /\ r \notin Range(filtered_df)

\* C5: a row is missing from the Filtered View only through an explicit
\* mismatch with a selected value: never because its Date is null, nor
\* because a categorical field is null while that field is on "all".
ExplicitMismatch(r) ==
    \/ selected_branch # Todas /\ r.Branch # selected_branch
    \/ selected_product_line # Todas /\ r.ProductLine # selected_product_line
    \/ selected_customer_type # Todos /\ r.CustomerType # selected_customer_type
    \/ /\ Len(selected_date_range) = 2
       /\ r.Date # NaT
       /\ (r.Date < selected_date_range[1] \/ r.Date > selected_date_range[2])

C5_OnlyExplicitMismatchRemoves ==
    Rendered => \A r \in Removed(filtered_df) : ExplicitMismatch(r)

\* C6: on an empty Filtered View the pass raises nothing and computes no
\* aggregate: the KPI block and each of the eight charts take their "no
\* data" branch; on a non-empty Filtered View the KPI block computes.
C6_EmptyViewIsNoData ==
    Rendered =>
        IF filtered_df = <<>>
        THEN /\ pc = "done"
             /\ kpi = [NoKpi EXCEPT !.branch = "warning"]
             /\ \A c \in ChartNames : charts[c] = Info
        ELSE /\ kpi.branch = "metrics"
             /\ kpi.total_gross_income =
                    NanSum(Values(filtered_df, "gross_income"))

C6_Witness ==
    /\ pc = "done"
    /\ df # <<>>
    /\ filtered_df = <<>>
    /\ kpi.branch = "warning"

\* C7: on a non-empty Filtered View the per-group sums of "Revenue by
\* product line" add up to the sum of Total over the view, the KPI total
\* revenue.
TableSum(t) == SumSeq([i \in 1..Len(t) |-> t[i].value])

C7_RevenueGroupsAddUp ==
    (pc = "done" /\ filtered_df # <<>>) =>
        TableSum(charts.fig_revenue_product.data) = kpi.total_revenue

\* C8: after load_data every record has numeric total, cost of goods sold
\* and gross income: a csv row with a non-numeric cell in one of the three
\* columns is not in the Dataset, and every other row is, unchanged.
IsNumber(cell) == cell \in NumberCells

RowIsNumeric(i) ==
    /\ IsNumber(csv[i].Total)
    /\ IsNumber(csv[i].cogs)
    /\ IsNumber(csv[i].gross_income)

C8_OnlyNumericRowsLoaded ==
    Loaded =>
        /\ total_dtype = "float64"
        /\ \A r \in Range(df) : RowIsNumeric(r.index)
        /\ \A i \in 1..Len(csv) :
              RowIsNumeric(i) =>
                 \E r \in Range(df) :
                    /\ r.index = i
                    /\ r.Total = NumberOf(csv[i].Total)
                    /\ r.cogs = NumberOf(csv[i].cogs)
                    /\ r.gross_income = NumberOf(csv[i].gross_income)
                    /\ r.Branch = csv[i].Branch

\* C9: after any sequence of selection changes the Filtered View is the
\* current selection applied to the full loaded Dataset, whatever was
\* selected before, and the Dataset is still what load_data returned.
C9_ViewDependsOnCurrentSelectionOnly ==
    Rendered =>
        /\ filtered_df =
              SelectSeq(df, LAMBDA r : PassesCategorical(r) /\ PassesDate(r))
        /\ df = loaded_df
        /\ df = load_data(csv)

C9_Witness ==
    /\ Rendered /\ reruns
    /\ selected_branch = "a"
    /\ filtered_df # <<>>
    /\ \E r \in Range(df) : r.Branch = "A"

\* C10: on a non-empty Filtered View the gross income composition has one
\* group per product line of the view, by descending sum, when one branch
\* is selected, and one group per (branch, product line) pair of the view
\* when all branches are; either way the group sums add up to the sum of
\* gross income over the view.
IsDescending(t) == \A i \in 1..(Len(t) - 1) : t[i].value >= t[i + 1].value

C10_IncomeComposition ==
    (pc = "done" /\ filtered_df # <<>>) =>
        LET c == charts.fig_income_composition
            t == c.data
        IN  /\ c.state = "chart"
            /\ TableSum(t) = NanSum(Values(filtered_df, "gross_income"))
            /\ IF selected_branch # Todas
               THEN /\ c.mode = "single"
                    /\ IsDescending(t)
                    /\ {t[i].key : i \in 1..Len(t)} =
                          unique(filtered_df, "ProductLine")
                    /\ Len(t) = Cardinality(unique(filtered_df, "ProductLine"))
               ELSE /\ c.mode = "all"
                    /\ {<<t[i].Branch, t[i].key>> : i \in 1..Len(t)} =
                          {<<r.Branch, r.ProductLine>> : r \in Range(filtered_df)}
                    /\ Len(t) = Cardinality(
                          {<<r.Branch, r.ProductLine>> : r \in Range(filtered_df)})

====
